---------------------------- MODULE Spec2Model ----------------------------
(***************************************************************************)
(* A model of src/my-user-info.py: the tool get_my_user_information, which *)
(* looks the caller's user record up by bot.email and renders a report.    *)
(*                                                                         *)
(* A Python str is modelled as a sequence of characters.  An ASCII         *)
(* character is the one-character string of itself; any other character   *)
(* is the string "U+XXXX" of its code point, so that the encoding of the   *)
(* module's file never changes which characters are equal.                 *)
(***************************************************************************)
EXTENDS Integers, Sequences, FiniteSets, TLC

(***************************************************************************)
(* Bounds of the model.                                                    *)
(***************************************************************************)
MaxDescLen == 2
MaxTotal == 1
MaxUsed == 2

(***************************************************************************)
(* String literals of the source.                                          *)
(***************************************************************************)
\* line 12: "No user information"
Sentinel == <<"N", "o", " ", "u", "s", "e", "r", " ", "i", "n", "f", "o", "r", "m", "a", "t", "i", "o", "n">>
\* line 9: the 27 "=" on each side of bot.email
BannerRule == <<"=", "=", "=", "=", "=", "=", "=", "=", "=", "=", "=", "=", "=", "=", "=", "=", "=", "=", "=", "=", "=", "=", "=", "=", "=", "=", "=">>
\* line 14: the heading, its "\n" escape and the line break of the literal
Header == <<"U+60A8", "U+7684", "U+767B", "U+5F55", "U+7528", "U+6237", "U+4FE1", "U+606F", "U+5982", "U+4E0B", "U+FF1A", "\n", "\n">>
\* line 15, before {user.avatar}
AvatarLabel == <<"U+5934", "U+50CF", "U+FF1A", "!", "[", "U+5934", "U+50CF", "]", "(">>
\* line 15, after {user.avatar}: the size hint, the ")" closing the image
AvatarHint == <<" ", "\"", "=", "6", "0", "x", "4", "0", "\"", ")">>
\* lines 15-18: a "\n" escape followed by the line break of the literal
FieldBreak == <<"\n", "\n">>
\* line 16
EmailLabel == <<"U+90AE", "U+7BB1", ":", " ">>
\* line 17
DescriptionLabel == <<"U+63CF", "U+8FF0", ":", " ">>
\* line 18
RemainingLabel == <<"U+5269", "U+4F59", "U+4F7F", "U+7528", "U+6B21", "U+6570", ":", " ">>
\* line 19
FeishuLabel == <<"U+662F", "U+5426", "U+98DE", "U+4E66", "U+7528", "U+6237", "U+FF1A">>
\* lines 19-20: the line break before the closing quotes
FinalBreak == <<"\n">>

(***************************************************************************)
(* Python's conversions in an f-string field: str(int) and str(bool).      *)
(***************************************************************************)
DigitChars == <<"0", "1", "2", "3", "4", "5", "6", "7", "8", "9">>

RECURSIVE NatToStr(_)
NatToStr(n) ==
    IF n < 10 THEN <<DigitChars[n + 1]>>
    ELSE NatToStr(n \div 10) \o <<DigitChars[(n % 10) + 1]>>

IntToStr(n) == IF n < 0 THEN <<"-">> \o NatToStr(0 - n) ELSE NatToStr(n)

\* A variant: the lower-case literals of JSON.
BoolToStrLower(b) == IF b THEN <<"t", "r", "u", "e">> ELSE <<"f", "a", "l", "s", "e">>

BoolToStr(b) == IF b THEN <<"T", "r", "u", "e">> ELSE <<"F", "a", "l", "s", "e">>

(***************************************************************************)
(* The data the tool reads: identities, user records, the store.           *)
(***************************************************************************)
None == [kind |-> "none"]

Emails == { <<"a", "@", "x", ".", "c", "o", "m">>, <<"b", "@", "y">> }

Avatars == { <<"h", "t", "t", "p", ":", "/", "/", "i", "m", "g", "/", "1", ".", "p", "n", "g">>, <<"x", "\"", ")">> }

DescChars == {"V", "\n", "<"}

Descriptions == UNION { [1..n -> DescChars] : n \in 0..MaxDescLen }

TotalValues == (0..MaxTotal) \cup {100}

UsedValues == (0..MaxUsed) \cup {30}

Users(e) ==
    [kind : {"user"}, email : {e}, avatar : Avatars, description : Descriptions,
     total_requests : TotalValues, used_requests : UsedValues,
     is_feishu_user : BOOLEAN]

\* The records the store's writers put in place while the tool is in use.
WrittenUsers(e) ==
    { u \in Users(e) : /\ Len(u.avatar) > 3
                       /\ u.description \in {<<>>, <<"\n">>}
                       /\ u.total_requests = 1
                       /\ u.used_requests <= MaxUsed }

ToolInputs == { <<>>, <<"h", "i">> }

VARIABLES
    store,       \* the user table: identity -> record or None
    pc,          \* where the invocation is
    bot_email,   \* bot.email
    tool_input,  \* the caller-supplied input
    user,        \* the local variable user
    conn,        \* the connection of the generator bot.db() of this invocation
    lookups,     \* the queries this invocation issued
    failed,      \* whether a query of this invocation raised
    result,      \* how the invocation ended: a returned str, or a raised error
    stdout,      \* what the last print wrote
    store0,      \* the store when the invocation began
    prev         \* the invocation before this one, while its record is unchanged

vars == <<store, pc, bot_email, tool_input, user, conn, lookups, failed, result, stdout, store0, prev>>

Pending == [kind |-> "pending"]
Raised == [kind |-> "raise"]
Returned(s) == [kind |-> "return", val |-> s]

Done == {"returned", "raised"}

(***************************************************************************)
(* crud_user.get_user_by_email(db, email): the record of that identity, or *)
(* None.                                                                   *)
(***************************************************************************)
get_user_by_email(s, e) == s[e]

\* line 9: the text print writes, the newline print appends included
Banner(e) == <<"\n">> \o BannerRule \o e \o BannerRule \o <<"\n">> \o <<"\n">>

\* line 11: "not user" is true of None; a record is truthy
IsAbsent(u) == u = None

\* A variant: the remaining count clamped at zero.
RemainingClamped(u) ==
    IF u.total_requests < u.used_requests THEN 0 ELSE u.total_requests - u.used_requests

\* line 18: user.total_requests - user.used_requests
Remaining(u) == u.total_requests - u.used_requests

\* A variant: the description HTML-escaped before it is embedded.
RECURSIVE EscapeHtml(_)
EscapeHtml(s) ==
    IF s = <<>> THEN <<>>
    ELSE (IF Head(s) = "<" THEN <<"&", "l", "t", ";">> ELSE <<Head(s)>>) \o EscapeHtml(Tail(s))

ContentEscaped(u) ==
    Header
    \o AvatarLabel \o u.avatar \o AvatarHint \o FieldBreak
    \o EmailLabel \o u.email \o FieldBreak
    \o DescriptionLabel \o EscapeHtml(u.description) \o FieldBreak
    \o RemainingLabel \o IntToStr(Remaining(u)) \o FieldBreak
    \o FeishuLabel \o BoolToStr(u.is_feishu_user) \o FinalBreak

\* A variant: the description line placed before the email line.
ContentSwapped(u) ==
    Header
    \o AvatarLabel \o u.avatar \o AvatarHint \o FieldBreak
    \o DescriptionLabel \o u.description \o FieldBreak
    \o EmailLabel \o u.email \o FieldBreak
    \o RemainingLabel \o IntToStr(Remaining(u)) \o FieldBreak
    \o FeishuLabel \o BoolToStr(u.is_feishu_user) \o FinalBreak

\* lines 14-20: the f-string
Content(u) ==
    Header
    \o AvatarLabel \o u.avatar \o AvatarHint \o FieldBreak
    \o EmailLabel \o u.email \o FieldBreak
    \o DescriptionLabel \o u.description \o FieldBreak
    \o RemainingLabel \o IntToStr(Remaining(u)) \o FieldBreak
    \o FeishuLabel \o BoolToStr(u.is_feishu_user) \o FinalBreak

\* A variant: an absent user rendered as a report with nothing in it.
RespondEmptyReport(u) ==
    IF u = None
    THEN Header \o EmailLabel \o FieldBreak \o DescriptionLabel \o FinalBreak
    ELSE Content(u)

\* A variant: a non-empty tool_input echoed in front of the answer.
RespondEcho(u) ==
    tool_input \o (IF u = None THEN Sentinel ELSE Content(u))

\* lines 11-21: what the tool returns for the looked-up user
Respond(u) == IF IsAbsent(u) THEN Sentinel ELSE Content(u)

(***************************************************************************)
(* The invocation, step by step.                                           *)
(***************************************************************************)
Summary == [kind |-> "call", email |-> bot_email, tool_input |-> tool_input, result |-> result]

\* The runtime calls the tool; line 9 prints the banner.
Call(e, t) ==
    /\ bot_email' = e
    /\ tool_input' = t
    /\ stdout' = Banner(e)
    /\ user' = None
    /\ conn' = "none"
    /\ lookups' = 0
    /\ failed' = FALSE
    /\ result' = Pending
    /\ store0' = store
    /\ pc' = "line10"
    /\ UNCHANGED store

Invoke ==
    /\ pc \in Done \cup {"idle"}
    /\ \E e \in Emails, t \in ToolInputs : Call(e, t)
    /\ prev' = IF pc \in Done THEN Summary ELSE prev

\* line 10, next(bot.db()): the generator runs to its yield and hands out the
\* session; the generator object itself is referenced by nothing afterwards.
AcquireDb ==
    /\ pc = "line10"
    /\ conn' = "held"
    /\ pc' = "lookup"
    /\ UNCHANGED <<store, bot_email, tool_input, user, lookups, failed, result, stdout, store0, prev>>

\* The abandoned generator is finalized, which runs the code after its yield
\* and releases the connection.  The tool never resumes or closes it: when
\* this happens is the garbage collector's choice.
FinalizeDb ==
    /\ conn = "held"
    /\ conn' = "released"
    /\ UNCHANGED <<store, pc, bot_email, tool_input, user, lookups, failed, result, stdout, store0, prev>>

\* A variant: the lookup charges the user one request.
LookupAndCharge ==
    /\ pc = "lookup"
    /\ user' = get_user_by_email(store, bot_email)
    /\ store' = IF store[bot_email] = None THEN store
                ELSE [store EXCEPT ![bot_email].used_requests = @ + 1]
    /\ lookups' = lookups + 1
    /\ pc' = "line11"
    /\ UNCHANGED <<bot_email, tool_input, conn, failed, result, stdout, store0, prev>>

\* A variant: get-or-create, a missing user is given an empty record.
LookupOrCreate ==
    /\ pc = "lookup"
    /\ store' = IF store[bot_email] # None THEN store
                ELSE [store EXCEPT ![bot_email] =
                        [kind |-> "user", email |-> bot_email, avatar |-> <<>>,
                         description |-> <<>>, total_requests |-> 0,
                         used_requests |-> 0, is_feishu_user |-> FALSE]]
    /\ user' = store'[bot_email]
    /\ lookups' = lookups + 1
    /\ pc' = "line11"
    /\ UNCHANGED <<bot_email, tool_input, conn, failed, result, stdout, store0, prev>>

\* line 10, crud_user.get_user_by_email(..., bot.email) answers.
Lookup ==
    /\ pc = "lookup"
    /\ user' = get_user_by_email(store, bot_email)
    /\ lookups' = lookups + 1
    /\ pc' = "line11"
    /\ UNCHANGED <<store, bot_email, tool_input, conn, failed, result, stdout, store0, prev>>

\* A variant: the error is caught and the sentinel returned in its place.
LookupFailsFallback ==
    /\ pc = "lookup"
    /\ lookups' = lookups + 1
    /\ failed' = TRUE
    /\ result' = Returned(Sentinel)
    /\ pc' = "returned"
    /\ UNCHANGED <<store, bot_email, tool_input, user, conn, stdout, store0, prev>>

\* line 10, the query raises (the store is unreachable): nothing in the tool
\* catches it.
LookupFails ==
    /\ pc = "lookup"
    /\ lookups' = lookups + 1
    /\ failed' = TRUE
    /\ result' = Raised
    /\ pc' = "raised"
    /\ UNCHANGED <<store, bot_email, tool_input, user, conn, stdout, store0, prev>>

\* lines 11-21
Return ==
    /\ pc = "line11"
    /\ result' = Returned(Respond(user))
    /\ pc' = "returned"
    /\ UNCHANGED <<store, bot_email, tool_input, user, conn, lookups, failed, stdout, store0, prev>>

\* Between invocations the owners of the table write to it; the finished
\* invocation's frame is gone by then.
StoreWrite ==
    /\ pc \in Done \cup {"idle"}
    /\ \E e \in Emails : \E u \in WrittenUsers(e) \cup {None} :
          /\ u # store[e]
          /\ store' = [store EXCEPT ![e] = u]
          /\ prev' = LET p == IF pc \in Done THEN Summary ELSE prev
                     IN  IF p # None /\ p.email = e THEN None ELSE p
    /\ pc' = "idle"
    /\ bot_email' = <<>>
    /\ tool_input' = <<>>
    /\ user' = None
    /\ conn' = "none"
    /\ lookups' = 0
    /\ failed' = FALSE
    /\ result' = Pending
    /\ stdout' = <<>>
    /\ store0' = store'

Init ==
    /\ store = [e \in Emails |-> None]
    /\ pc = "idle"
    /\ bot_email = <<>>
    /\ tool_input = <<>>
    /\ user = None
    /\ conn = "none"
    /\ lookups = 0
    /\ failed = FALSE
    /\ result = Pending
    /\ stdout = <<>>
    /\ store0 = store
    /\ prev = None

Next == Invoke \/ AcquireDb \/ FinalizeDb \/ Lookup \/ LookupFails \/ Return \/ StoreWrite

Spec == Init /\ [][Next]_vars

(***************************************************************************)
(* One invocation over every record of the data model: at most one         *)
(* identity has a record.                                                  *)
(***************************************************************************)
InitRender ==
    /\ \E e \in Emails : \E u \in Users(e) :
          store = [x \in Emails |-> IF x = e THEN u ELSE None]
    /\ pc = "idle"
    /\ bot_email = <<>>
    /\ tool_input = <<>>
    /\ user = None
    /\ conn = "none"
    /\ lookups = 0
    /\ failed = FALSE
    /\ result = Pending
    /\ stdout = <<>>
    /\ store0 = store
    /\ prev = None

InvokeOnce ==
    /\ pc = "idle"
    /\ \E e \in Emails, t \in ToolInputs : Call(e, t)
    /\ UNCHANGED prev

NextRender == InvokeOnce \/ AcquireDb \/ FinalizeDb \/ Lookup \/ LookupFails \/ Return

RenderSpec == InitRender /\ [][NextRender]_vars

(***************************************************************************)
(* Reading a rendered report back: substring search and field extraction.  *)
(***************************************************************************)
Min(S) == CHOOSE x \in S : \A y \in S : x <= y

Max(S) == CHOOSE x \in S : \A y \in S : y <= x

OccursAt(s, p, i) ==
    /\ i >= 1
    /\ i + Len(p) - 1 <= Len(s)
    /\ \A k \in 1..Len(p) : s[i + k - 1] = p[k]

Occurrences(s, p) == { i \in 1..(Len(s) + 1) : OccursAt(s, p, i) }

Contains(s, p) == Occurrences(s, p) # {}

\* The first place at or after from where p occurs in s, 0 when there is none.
FindFrom(s, p, from) ==
    LET c == { i \in Occurrences(s, p) : i >= from }
    IN  IF c = {} THEN 0 ELSE Min(c)

\* The text between the last occurrence of label and the line break after it;
\* the character "?" alone when there is no such field.
FieldAfterLast(s, label) ==
    LET occ == Occurrences(s, label)
    IN  IF occ = {} THEN <<"?">>
        ELSE LET start == Max(occ) + Len(label)
                 ends == { j \in start..Len(s) : s[j] = "\n" }
             IN  IF ends = {} THEN <<"?">> ELSE SubSeq(s, start, Min(ends) - 1)

IsDigit(c) == \E d \in 1..10 : DigitChars[d] = c

DigitValue(c) == (CHOOSE d \in 1..10 : DigitChars[d] = c) - 1

RECURSIVE ParseNat(_)
ParseNat(s) ==
    IF Len(s) = 1 THEN DigitValue(s[1])
    ELSE 10 * ParseNat(SubSeq(s, 1, Len(s) - 1)) + DigitValue(s[Len(s)])

IsDecimal(s) ==
    LET digits == IF s # <<>> /\ Head(s) = "-" THEN Tail(s) ELSE s
    IN  /\ digits # <<>>
        /\ \A k \in 1..Len(digits) : IsDigit(digits[k])

ParseInt(s) == IF Head(s) = "-" THEN 0 - ParseNat(Tail(s)) ELSE ParseNat(s)

\* Whether the segments occur in s one after the other, each searched for from
\* the end of the one before it.
RECURSIVE InOrderFrom(_, _, _)
InOrderFrom(s, segs, from) ==
    IF segs = <<>> THEN TRUE
    ELSE LET i == FindFrom(s, Head(segs), from)
         IN  i # 0 /\ InOrderFrom(s, Tail(segs), i + Len(Head(segs)))

RECURSIVE TotalLen(_)
TotalLen(segs) == IF segs = <<>> THEN 0 ELSE Len(Head(segs)) + TotalLen(Tail(segs))

FoundReport == pc = "returned" /\ user # None

Labels == {AvatarLabel, EmailLabel, DescriptionLabel, RemainingLabel, FeishuLabel}

(***************************************************************************)
(* The claims.                                                             *)
(***************************************************************************)

\* C1: when the lookup returned no user, the tool returns exactly the
\* sentinel "No user information": no field label is in the output and the
\* invocation did not end in an error.
C1_AbsentGivesSentinel ==
    (pc \in Done /\ ~failed /\ user = None) =>
        /\ pc = "returned"
        /\ result = Returned(Sentinel)
        /\ \A l \in Labels : ~Contains(result.val, l)

C1_Witness == pc = "returned" /\ user = None /\ store[bot_email] = None

\* C2: the remaining count in the report, read back as a number, is
\* total_requests - used_requests, also when that is zero or negative.
C2_RemainingExact ==
    FoundReport =>
        LET field == FieldAfterLast(result.val, RemainingLabel)
        IN  /\ IsDecimal(field)
            /\ ParseInt(field) = user.total_requests - user.used_requests

C2_Witness == FoundReport /\ user.used_requests > user.total_requests /\ user.total_requests > 0

C4_Idempotent ==
    (/\ pc = "returned"
     /\ prev # None
     /\ prev.email = bot_email
     /\ prev.result.kind = "return") => prev.result.val = result.val

C4_Witness ==
    /\ FoundReport
    /\ prev # None
    /\ prev.email = bot_email
    /\ prev.result.kind = "return"

\* C5: when an invocation has ended, by a return or by an error, the store
\* holds what it held when the invocation began.
C5_StoreUnchanged == pc \in Done => store = store0

C5_Witness == pc = "raised" /\ \E e \in Emails : store[e] # None /\ store[e] = store0[e]

\* C6: two invocations in a row for the same identity and store that differ
\* in tool_input and end the same way (both answered, or both failed by the
\* store) have the same result.
C6_InputIgnored ==
    (/\ pc \in Done
     /\ prev # None
     /\ prev.email = bot_email
     /\ prev.tool_input # tool_input
     /\ prev.result.kind = result.kind) => prev.result = result

C6_Witness ==
    /\ pc = "returned"
    /\ prev # None
    /\ prev.email = bot_email
    /\ prev.tool_input # tool_input
    /\ prev.result.kind = "return"
    /\ tool_input # <<>>

\* C7: the report contains the record's email and its description as they
\* are, whatever characters they hold.
C7_LiteralFields ==
    FoundReport =>
        /\ Contains(result.val, user.email)
        /\ Contains(result.val, user.description)

C7_Witness == FoundReport /\ user.description = <<"<", "\n">>

\* C8: the Feishu flag is rendered as True when it is set and as False when
\* it is not, and as nothing else.
C8_FlagLiteral ==
    FoundReport =>
        LET field == FieldAfterLast(result.val, FeishuLabel)
        IN  /\ field \in { <<"T", "r", "u", "e">>, <<"F", "a", "l", "s", "e">> }
            /\ (field = <<"T", "r", "u", "e">>) <=> user.is_feishu_user

C8_Witness == FoundReport /\ ~user.is_feishu_user /\ user.description = <<"V">>

\* C9: the report holds, in this order, the image reference with its size
\* hint, the email, the description, the remaining count and the Feishu flag,
\* and nothing but the heading and the line breaks besides: each field is
\* there once.
C9_FieldOrder ==
    FoundReport =>
        LET segs == << AvatarLabel \o user.avatar \o AvatarHint,
                       EmailLabel \o user.email,
                       DescriptionLabel \o user.description,
                       RemainingLabel \o IntToStr(user.total_requests - user.used_requests),
                       FeishuLabel \o BoolToStr(user.is_feishu_user) >>
        IN  /\ InOrderFrom(result.val, segs, 1)
            /\ Len(result.val) = Len(Header) + TotalLen(segs) + 4 * Len(FieldBreak) + Len(FinalBreak)

C9_Witness == FoundReport /\ user.description = <<"V", "V">> /\ user.is_feishu_user

\* C10: an invocation that has ended issued exactly one query, and one whose
\* query raised ended in that error: nothing was returned in its place.
C10_OneLookupNoRecovery ==
    /\ pc \in Done => lookups = 1
    /\ failed => (pc = "raised" /\ result = Raised /\ lookups = 1)

C10_Witness == pc = "raised" /\ failed /\ store[bot_email] # None

=============================================================================
